---- MODULE Spec2Model ----
(***************************************************************************)
(* packet-relay (main.go): a fan-out relay.  main starts one goroutine per *)
(* configured listener and waits for all of them; a UDP listener reads     *)
(* datagrams and a TCP connection handler reads chunks into a reusable     *)
(* buffer, and every successful read spawns one forwarding goroutine per   *)
(* configured target server.                                               *)
(***************************************************************************)
EXTENDS Integers, Sequences, FiniteSets, TLC

\* ---- bounds of the model ------------------------------------------------
\* length of the read buffer, make([]byte, 1024) in the source, scaled down
BufSize == 2
\* inbound units (datagrams and chunks) read in one run, all read loops together
MaxUnits == 2

\* ---- the environment ----------------------------------------------------
\* target addresses that resolve, accept connections and take writes; any
\* other address may fail to resolve or to connect, and is never written to
\* with success
Reachable == {"t1", "t2"}

\* one entry of config.json (ListenerConfig)
Listener(p, ts) == [Protocol |-> p, TargetServers |-> ts]

\* a run's inputs: the configuration loadConfig returns; per entry, the
\* remote addresses that connect to it, in the order they are accepted; and
\* whether the inbound sockets report errors (a failing ReadFrom or Accept, a
\* Read that fails with something else than io.EOF)
Scenario(c, r, f) == [cfg |-> c, remotes |-> r, flaky |-> f]

Scenarios ==
    { Scenario(<< Listener("udp", <<"t1", "tx">>) >>, << << >> >>, FALSE),
      Scenario(<< Listener("udp", <<"tx", "tx">>) >>, << << >> >>, FALSE),
      Scenario(<< Listener("udp", <<"t1">>) >>, << << >> >>, TRUE),
      Scenario(<< Listener("tcp", <<"tx", "t1">>) >>, << <<"c1">> >>, FALSE),
      Scenario(<< Listener("tcp", <<"t1">>) >>, << <<"c1", "c2">> >>, FALSE),
      Scenario(<< Listener("tcp", <<"t2">>) >>, << <<"c1">> >>, TRUE),
      Scenario(<< Listener("tcp", <<"tx">>) >>, << <<"c1">> >>, FALSE),
      Scenario(<< Listener("sctp", <<"t1">>), Listener("udp", << >>), Listener("tcp", << >>) >>,
               << << >>, << >>, <<"c1">> >>, TRUE),
      Scenario(<< Listener("sctp", <<"t1">>) >>, << << >> >>, FALSE),
      Scenario(<< >>, << >>, FALSE) }

VARIABLES
    cfg,        \* config.Listeners
    remotes,    \* per entry, the remote addresses still to connect to it
    flaky,      \* whether the inbound sockets of this run report errors
    mainPc,     \* main: "loop" (lines 35-50) or "done" (returned)
    mainIdx,    \* index of the next entry of the range loop of main
    wg,         \* the WaitGroup counter
    lst,        \* per configuration entry: the goroutine main started for it
    loops,      \* the read loops: one per bound UDP socket, one per accepted connection
    attempts,   \* the forwarding goroutines, in the order they were spawned
    outConns,   \* the outbound TCP connections, by the goroutine that dialled them
    nUnits,     \* number of inbound units read so far
    log         \* the set of events logged

vars == <<cfg, remotes, flaky, mainPc, mainIdx, wg, lst, loops, attempts, outConns, nUnits, log>>

Min(a, b) == IF a < b THEN a ELSE b

\* byte i of the k-th inbound unit: every byte of every unit is distinct
Byte(k, i) == 10 * k + i

\* the datagram or stream data of inbound unit k, len bytes long
Inbound(k, len) == [i \in 1..len |-> Byte(k, i)]

\* make([]byte, 1024)
MakeBuf == [i \in 1..BufSize |-> 0]

\* conn.ReadFrom(buf) / conn.Read(buf): at most len(buf) bytes are stored
ReadInto(data) == SubSeq(data, 1, Min(Len(data), BufSize))

\* the buffer after a read stored `got` at its start
Overlay(buf, got) == [i \in 1..Len(buf) |-> IF i <= Len(got) THEN got[i] ELSE buf[i]]

\* buf[:n]: a slice sharing the memory of the buffer of read loop l
SliceOf(l, n) == [base |-> l, len |-> n]

Init ==
    /\ \E sc \in Scenarios : cfg = sc.cfg /\ remotes = sc.remotes /\ flaky = sc.flaky
    /\ mainPc = "loop"
    /\ mainIdx = 1
    /\ wg = 0
    /\ lst = [i \in 1..Len(cfg) |-> [pc |-> "unspawned", exit |-> "none", loop |-> 0]]
    /\ loops = << >>
    /\ attempts = << >>
    /\ outConns = << >>
    /\ nUnits = 0
    /\ log = {}

\* ---- main ---------------------------------------------------------------
\* one iteration of the range loop: wg.Add(1); go func(listener)
MainSpawn ==
    /\ mainPc = "loop"
    /\ mainIdx <= Len(cfg)
    /\ wg' = wg + 1
    /\ lst' = [lst EXCEPT ![mainIdx].pc = "start"]
    /\ mainIdx' = mainIdx + 1
    /\ UNCHANGED <<cfg, remotes, flaky, mainPc, loops, attempts, outConns, nUnits, log>>

\* a main without the wait: it returns whatever the counter is
WaitSkipped(counter) == TRUE

\* wg.Wait() returns when the counter is zero
WaitReturns(counter) == counter = 0

MainWait ==
    /\ mainPc = "loop"
    /\ mainIdx > Len(cfg)
    /\ WaitReturns(wg)
    /\ mainPc' = "done"
    /\ UNCHANGED <<cfg, remotes, flaky, mainIdx, wg, lst, loops, attempts, outConns, nUnits, log>>

\* the goroutine of entry i returns: the deferred wg.Done() runs
WorkerExit(i, why) == [lst EXCEPT ![i].pc = "exited", ![i].exit = why]

\* a new read loop: its buffer, the units it has read so far (in the order
\* the reads returned), the targets it fans out to, and (for the record) the
\* length of the datagram or stream data its last read was offered
NewLoop(kind, i, remote) ==
    [kind |-> kind, lst |-> i, remote |-> remote, pc |-> "read", buf |-> MakeBuf, pending |-> << >>,
     unit |-> 0, inlen |-> 0, read |-> << >>, open |-> TRUE, targets |-> cfg[i].TargetServers]

\* an unknown protocol reported with log.Fatalf: the process ends, and with it
\* every other worker
UnknownProtocolFatal(i) ==
    /\ lst[i].pc = "start"
    /\ cfg[i].Protocol \notin {"udp", "tcp"}
    /\ log' = log \cup {<<"Unknown protocol", i>>}
    /\ lst' = [j \in DOMAIN lst |->
                [lst[j] EXCEPT !.pc = "exited",
                               !.exit = IF j = i THEN "unknown" ELSE "killed"]]
    /\ wg' = wg - 1
    /\ UNCHANGED <<cfg, remotes, flaky, mainPc, mainIdx, loops, attempts, outConns, nUnits>>

\* the else branch of the goroutine of main: an unknown protocol is logged
UnknownProtocol(i) ==
    /\ lst[i].pc = "start"
    /\ cfg[i].Protocol \notin {"udp", "tcp"}
    /\ log' = log \cup {<<"Unknown protocol", i>>}
    /\ lst' = WorkerExit(i, "unknown")
    /\ wg' = wg - 1
    /\ UNCHANGED <<cfg, remotes, flaky, mainPc, mainIdx, loops, attempts, outConns, nUnits>>

\* a bind failure reported with log.Fatalf: the process ends, and with it
\* every other worker
UDPBindFatal(i) ==
    /\ lst[i].pc = "start"
    /\ cfg[i].Protocol = "udp"
    /\ \E ok \in BOOLEAN :
         IF ok
         THEN /\ loops' = Append(loops, NewLoop("udp", i, ""))
              /\ lst' = [lst EXCEPT ![i].pc = "serving", ![i].loop = Len(loops) + 1]
              /\ log' = log \cup {<<"UDP listener started", i>>}
              /\ wg' = wg
         ELSE /\ log' = log \cup {<<"Error starting UDP listener", i>>}
              /\ lst' = [j \in DOMAIN lst |->
                          [lst[j] EXCEPT !.pc = "exited",
                                         !.exit = IF j = i THEN "bindfail" ELSE "killed"]]
              /\ wg' = wg - 1
              /\ loops' = loops
    /\ UNCHANGED <<cfg, remotes, flaky, mainPc, mainIdx, attempts, outConns, nUnits>>

\* ---- startUDPListener ---------------------------------------------------
\* net.ListenPacket: on an error log and return, else enter the read loop
UDPBind(i) ==
    /\ lst[i].pc = "start"
    /\ cfg[i].Protocol = "udp"
    /\ \E ok \in BOOLEAN :
         IF ok
         THEN /\ loops' = Append(loops, NewLoop("udp", i, ""))
              /\ lst' = [lst EXCEPT ![i].pc = "serving", ![i].loop = Len(loops) + 1]
              /\ log' = log \cup {<<"UDP listener started", i>>}
              /\ wg' = wg
         ELSE /\ log' = log \cup {<<"Error starting UDP listener", i>>}
              /\ lst' = WorkerExit(i, "bindfail")
              /\ wg' = wg - 1
              /\ loops' = loops
    /\ UNCHANGED <<cfg, remotes, flaky, mainPc, mainIdx, attempts, outConns, nUnits>>

\* ---- the read loops ------------------------------------------------------
\* lengths of the datagrams that arrive: a short one and one longer than the buffer
UDPLens == {1, BufSize + 1}
\* lengths of the data available to one conn.Read
TCPLens == {1, BufSize}

\* a read or accept returned an error that the loop reports and survives
ReadError(what, i) == flaky /\ log' = log \cup {<<what, i>>}

\* a read loop that waits for the goroutines it spawned before it reads again
BeginReadAfterAttempts(l, len) ==
    /\ loops[l].pc = "read"
    /\ \A a \in 1..Len(attempts) : attempts[a].loop = l => attempts[a].pc = "done"
    /\ nUnits < MaxUnits
    /\ nUnits' = nUnits + 1
    /\ loops' = [loops EXCEPT ![l].pc = "copy", ![l].unit = nUnits + 1,
                              ![l].inlen = len,
                              ![l].pending = ReadInto(Inbound(nUnits + 1, len))]

\* the read loop l calls ReadFrom/Read, which blocks until data arrives; the
\* call is then storing inbound unit nUnits+1 (len bytes long) into buf
BeginRead(l, len) ==
    /\ loops[l].pc = "read"
    /\ nUnits < MaxUnits
    /\ nUnits' = nUnits + 1
    /\ loops' = [loops EXCEPT ![l].pc = "copy", ![l].unit = nUnits + 1,
                              ![l].inlen = len,
                              ![l].pending = ReadInto(Inbound(nUnits + 1, len))]

\* go func(server, buf[:n]) for the j-th target: the goroutine's arguments,
\* its position, the number of outcomes it has logged and of writes it has
\* made, and (for the record) the bytes the read had returned and the length
\* of the inbound unit they were read from
NewAttempt(l, k, got, targets, j) ==
    [loop |-> l, unit |-> k, tidx |-> j, server |-> targets[j],
     proto |-> loops[l].kind, data |-> SliceOf(l, Len(got)), orig |-> got,
     inlen |-> loops[l].inlen,
     pc |-> IF loops[l].kind = "udp" THEN "resolve" ELSE "dial",
     outcome |-> "none", nout |-> 0, writes |-> 0, sent |-> << >>, conn |-> 0]

\* a fan-out that skips a target to which an earlier attempt has failed
SpawnAttemptsUnlessFailed(l, k, got, targets) ==
    LET Healthy(r) == ~\E b \in 1..Len(attempts) :
                          /\ attempts[b].server = r.server
                          /\ attempts[b].outcome \in
                                {"ResolutionFailed", "ConnectFailed", "WriteFailed"}
    IN  SelectSeq([j \in 1..Len(targets) |-> NewAttempt(l, k, got, targets, j)], Healthy)

\* a fan-out through one queue per target: an attempt waits while an earlier
\* attempt to the same target is in flight
SpawnAttemptsQueued(l, k, got, targets) ==
    [j \in 1..Len(targets) |->
        [NewAttempt(l, k, got, targets, j) EXCEPT
            !.pc = IF \E b \in 1..Len(attempts) :
                         attempts[b].server = targets[j] /\ attempts[b].pc # "done"
                   THEN "queued" ELSE @]]

\* the goroutines of `for _, server := range targets { go func(...)(server, buf[:n]) }`
SpawnAttempts(l, k, got, targets) ==
    [j \in 1..Len(targets) |-> NewAttempt(l, k, got, targets, j)]

\* a read loop that gives up forwarding once an attempt of its own has
\* failed: the unit it has read is never fanned out
FanOutUnlessFailed(l) ==
    LET lp == loops[l] IN
    /\ \A b \in 1..Len(attempts) :
          attempts[b].loop = l =>
             attempts[b].outcome \notin {"ResolutionFailed", "ConnectFailed", "WriteFailed"}
    /\ loops' = [loops EXCEPT ![l].pc = "read", ![l].pending = << >>,
                              ![l].buf = Overlay(lp.buf, lp.pending),
                              ![l].read = Append(@, lp.unit)]
    /\ attempts' = attempts \o SpawnAttempts(l, lp.unit, lp.pending, lp.targets)

\* the read returned n bytes: the loop body spawns the attempts and reads again
FanOut(l) ==
    LET lp == loops[l] IN
    /\ loops' = [loops EXCEPT ![l].pc = "read", ![l].pending = << >>,
                              ![l].buf = Overlay(lp.buf, lp.pending),
                              ![l].read = Append(@, lp.unit)]
    /\ attempts' = attempts \o SpawnAttempts(l, lp.unit, lp.pending, lp.targets)

\* a UDP read loop without the `continue`: after a failed ReadFrom the body
\* goes on and fans out buf[:0]
UDPReadFromNoContinue(i) ==
    /\ lst[i].pc = "serving"
    /\ cfg[i].Protocol = "udp"
    /\ loops[lst[i].loop].pc = "read"
    /\ \/ /\ ReadError("Error reading UDP packet", i)
          /\ attempts' = attempts \o
                SpawnAttempts(lst[i].loop, 0, << >>, loops[lst[i].loop].targets)
          /\ UNCHANGED <<loops, nUnits>>
       \/ /\ \E len \in UDPLens : BeginRead(lst[i].loop, len)
          /\ UNCHANGED <<log, attempts>>
    /\ UNCHANGED <<cfg, remotes, flaky, mainPc, mainIdx, wg, lst, outConns>>

\* a UDP read loop that returns on a read error
UDPReadFromFatal(i) ==
    /\ lst[i].pc = "serving"
    /\ cfg[i].Protocol = "udp"
    /\ loops[lst[i].loop].pc = "read"
    /\ \/ /\ ReadError("Error reading UDP packet", i)
          /\ lst' = WorkerExit(i, "readerr")
          /\ wg' = wg - 1
          /\ UNCHANGED <<loops, nUnits>>
       \/ /\ \E len \in UDPLens : BeginRead(lst[i].loop, len)
          /\ UNCHANGED <<log, lst, wg>>
    /\ UNCHANGED <<cfg, remotes, flaky, mainPc, mainIdx, attempts, outConns>>

\* conn.ReadFrom(buf) of the UDP read loop: an error is logged and the loop goes on
UDPReadFrom(i) ==
    /\ lst[i].pc = "serving"
    /\ cfg[i].Protocol = "udp"
    /\ loops[lst[i].loop].pc = "read"
    /\ \/ /\ ReadError("Error reading UDP packet", i)
          /\ UNCHANGED <<loops, nUnits>>
       \/ /\ \E len \in UDPLens : BeginRead(lst[i].loop, len)
          /\ UNCHANGED log
    /\ UNCHANGED <<cfg, remotes, flaky, mainPc, mainIdx, wg, lst, attempts, outConns>>

\* lines 84-100: log the packet, spawn one goroutine per target server
UDPFanOut(i) ==
    /\ lst[i].pc = "serving"
    /\ cfg[i].Protocol = "udp"
    /\ loops[lst[i].loop].pc = "copy"
    /\ FanOut(lst[i].loop)
    /\ log' = log \cup {<<"Received UDP packet", i, loops[lst[i].loop].unit>>}
    /\ UNCHANGED <<cfg, remotes, flaky, mainPc, mainIdx, wg, lst, outConns, nUnits>>

\* ---- startTCPListener ---------------------------------------------------
TCPBind(i) ==
    /\ lst[i].pc = "start"
    /\ cfg[i].Protocol = "tcp"
    /\ \E ok \in BOOLEAN :
         IF ok
         THEN /\ lst' = [lst EXCEPT ![i].pc = "serving"]
              /\ log' = log \cup {<<"TCP listener started", i>>}
              /\ wg' = wg
         ELSE /\ log' = log \cup {<<"Error starting TCP listener", i>>}
              /\ lst' = WorkerExit(i, "bindfail")
              /\ wg' = wg - 1
    /\ UNCHANGED <<cfg, remotes, flaky, mainPc, mainIdx, loops, attempts, outConns, nUnits>>

\* the connection handlers started so far
Handlers == {l \in 1..Len(loops) : loops[l].kind = "tcp"}

\* an accept loop that serves a connection itself: it accepts the next one
\* only when the handlers of the earlier ones have returned
TCPAcceptInline(i) ==
    /\ lst[i].pc = "serving"
    /\ cfg[i].Protocol = "tcp"
    /\ \/ /\ ReadError("Error accepting TCP connection", i)
          /\ UNCHANGED loops
          /\ UNCHANGED remotes
       \/ /\ remotes[i] # << >>
          /\ \A c \in Handlers : loops[c].lst = i => loops[c].pc = "exited"
          /\ loops' = Append(loops, NewLoop("tcp", i, Head(remotes[i])))
          /\ log' = log \cup {<<"New TCP connection", Head(remotes[i])>>}
          /\ remotes' = [remotes EXCEPT ![i] = Tail(@)]
    /\ UNCHANGED <<cfg, flaky, mainPc, mainIdx, wg, lst, attempts, outConns, nUnits>>

\* an accept loop that returns on an accept error: the worker ends (wg.Done)
\* while the handlers it started go on
TCPAcceptFatal(i) ==
    /\ lst[i].pc = "serving"
    /\ cfg[i].Protocol = "tcp"
    /\ \/ /\ ReadError("Error accepting TCP connection", i)
          /\ lst' = WorkerExit(i, "accepterr")
          /\ wg' = wg - 1
          /\ UNCHANGED loops
          /\ UNCHANGED remotes
       \/ /\ remotes[i] # << >>
          /\ loops' = Append(loops, NewLoop("tcp", i, Head(remotes[i])))
          /\ log' = log \cup {<<"New TCP connection", Head(remotes[i])>>}
          /\ remotes' = [remotes EXCEPT ![i] = Tail(@)]
          /\ UNCHANGED <<lst, wg>>
    /\ UNCHANGED <<cfg, flaky, mainPc, mainIdx, attempts, outConns, nUnits>>

\* listener.Accept(): an error is logged and the loop goes on; a connection
\* gets its own handler goroutine
TCPAccept(i) ==
    /\ lst[i].pc = "serving"
    /\ cfg[i].Protocol = "tcp"
    /\ \/ /\ ReadError("Error accepting TCP connection", i)
          /\ UNCHANGED loops
          /\ UNCHANGED remotes
       \/ /\ remotes[i] # << >>
          /\ loops' = Append(loops, NewLoop("tcp", i, Head(remotes[i])))
          /\ log' = log \cup {<<"New TCP connection", Head(remotes[i])>>}
          /\ remotes' = [remotes EXCEPT ![i] = Tail(@)]
    /\ UNCHANGED <<cfg, flaky, mainPc, mainIdx, wg, lst, attempts, outConns, nUnits>>

\* ---- handleTCPConnection ------------------------------------------------
\* a handler that closes the connection in the io.EOF branch only, not by a
\* defer: a read that fails with another error leaves the connection open
ConnReadCloseOnEOF(c) ==
    /\ c \in Handlers
    /\ loops[c].pc = "read"
    /\ \/ /\ log' = log \cup {<<"Connection closed by", loops[c].remote>>}
          /\ loops' = [loops EXCEPT ![c].pc = "exited", ![c].open = FALSE]
          /\ UNCHANGED nUnits
       \/ /\ flaky
          /\ log' = log \cup {<<"Error reading from TCP connection", loops[c].remote>>}
          /\ loops' = [loops EXCEPT ![c].pc = "exited"]
          /\ UNCHANGED nUnits
       \/ /\ \E len \in TCPLens : BeginRead(c, len)
          /\ UNCHANGED log
    /\ UNCHANGED <<cfg, remotes, flaky, mainPc, mainIdx, wg, lst, attempts, outConns>>

\* a handler whose return cancels the forwarding goroutines it has spawned:
\* those in flight stop where they are
ConnReadCancelling(c) ==
    /\ c \in Handlers
    /\ loops[c].pc = "read"
    /\ \/ /\ \E why \in {"Connection closed by"} \cup
                         (IF flaky THEN {"Error reading from TCP connection"} ELSE {}) :
               log' = log \cup {<<why, loops[c].remote>>}
          /\ loops' = [loops EXCEPT ![c].pc = "exited", ![c].open = FALSE]
          /\ attempts' = [a \in DOMAIN attempts |->
                            IF attempts[a].loop = c /\ attempts[a].pc # "done"
                            THEN [attempts[a] EXCEPT !.pc = "cancelled"]
                            ELSE attempts[a]]
          /\ UNCHANGED nUnits
       \/ /\ \E len \in TCPLens : BeginRead(c, len)
          /\ UNCHANGED <<log, attempts>>
    /\ UNCHANGED <<cfg, remotes, flaky, mainPc, mainIdx, wg, lst, outConns>>

\* conn.Read(buf): on io.EOF or another error log, break, and the deferred
\* conn.Close() runs; else n bytes were read
ConnRead(c) ==
    /\ c \in Handlers
    /\ loops[c].pc = "read"
    /\ \/ /\ \E why \in {"Connection closed by"} \cup
                         (IF flaky THEN {"Error reading from TCP connection"} ELSE {}) :
               log' = log \cup {<<why, loops[c].remote>>}
          /\ loops' = [loops EXCEPT ![c].pc = "exited", ![c].open = FALSE]
          /\ UNCHANGED nUnits
       \/ /\ \E len \in TCPLens : BeginRead(c, len)
          /\ UNCHANGED log
    /\ UNCHANGED <<cfg, remotes, flaky, mainPc, mainIdx, wg, lst, attempts, outConns>>

\* lines 142-158: spawn one goroutine per target server
ConnFanOut(c) ==
    /\ c \in Handlers
    /\ loops[c].pc = "copy"
    /\ FanOut(c)
    /\ UNCHANGED <<cfg, remotes, flaky, mainPc, mainIdx, wg, lst, outConns, nUnits, log>>

\* ---- the forwarding goroutines -------------------------------------------
\* the results resolving or dialling `server` may have
Results(server) == IF server \in Reachable THEN {TRUE} ELSE BOOLEAN

\* the results a write to `server` may have
WriteResults(server) == IF server \in Reachable THEN {TRUE} ELSE {FALSE}

\* what a write that reads n bytes of old can see while a read stores new over it
TornSeqs(old, new, n) ==
    { [i \in 1..n |-> IF i \in S THEN new[i] ELSE old[i]] :
        S \in SUBSET (1..Min(n, Len(new))) }

\* the bytes a goroutine can read through slice d: the memory of the read
\* loop's buffer as it is now; unsynchronised with a read that is storing into it
ViewContents(d) ==
    LET lp == loops[d.base] IN
    IF lp.pc = "copy" THEN TornSeqs(lp.buf, lp.pending, d.len)
    ELSE {SubSeq(lp.buf, 1, d.len)}

\* a failure that cancels the attempts of the same unit that are in flight
FinishCancelSiblings(a, outcome, sent) ==
    [b \in DOMAIN attempts |->
        IF b = a
        THEN [attempts[b] EXCEPT !.pc = "done", !.outcome = outcome, !.nout = @ + 1,
                                 !.sent = sent]
        ELSE IF /\ outcome # "Delivered"
                /\ attempts[b].unit = attempts[a].unit
                /\ attempts[b].pc # "done"
             THEN [attempts[b] EXCEPT !.pc = "done", !.outcome = "WriteFailed",
                                      !.nout = @ + 1]
             ELSE attempts[b]]

\* the goroutine logs its outcome and returns
Finish(a, outcome, sent) ==
    [attempts EXCEPT ![a].pc = "done", ![a].outcome = outcome, ![a].nout = @ + 1,
                     ![a].sent = sent]

\* a resolve without the return: the failure is logged and the goroutine
\* goes on to WriteTo with the nil address
UDPResolveNoReturn(a) ==
    /\ attempts[a].pc = "resolve"
    /\ \E ok \in Results(attempts[a].server) :
         attempts' = IF ok THEN [attempts EXCEPT ![a].pc = "write"]
                     ELSE [Finish(a, "ResolutionFailed", << >>) EXCEPT ![a].pc = "write"]
    /\ UNCHANGED <<cfg, remotes, flaky, mainPc, mainIdx, wg, lst, loops, outConns, nUnits, log>>

\* net.ResolveUDPAddr("udp", server): on an error log and return
UDPResolve(a) ==
    /\ attempts[a].pc = "resolve"
    /\ \E ok \in Results(attempts[a].server) :
         attempts' = IF ok THEN [attempts EXCEPT ![a].pc = "write"]
                     ELSE Finish(a, "ResolutionFailed", << >>)
    /\ UNCHANGED <<cfg, remotes, flaky, mainPc, mainIdx, wg, lst, loops, outConns, nUnits, log>>

\* a forwarding goroutine that closes the socket it wrote to, as the TCP
\* goroutine does with its targetConn: here the socket is the listener's own
UDPWriteToClosing(a) ==
    /\ attempts[a].pc = "write"
    /\ attempts[a].proto = "udp"
    /\ \E ok \in WriteResults(attempts[a].server), s \in ViewContents(attempts[a].data) :
         attempts' = [(IF ok /\ loops[attempts[a].loop].open
                       THEN Finish(a, "Delivered", s)
                       ELSE Finish(a, "WriteFailed", << >>))
                      EXCEPT ![a].writes = @ + 1]
    /\ loops' = [loops EXCEPT ![attempts[a].loop].open = FALSE]
    /\ UNCHANGED <<cfg, remotes, flaky, mainPc, mainIdx, wg, lst, outConns, nUnits, log>>

\* conn.WriteTo(data, udpAddr) on the listener's own socket, then the log line
UDPWriteTo(a) ==
    /\ attempts[a].pc = "write"
    /\ attempts[a].proto = "udp"
    /\ \E ok \in WriteResults(attempts[a].server), s \in ViewContents(attempts[a].data) :
         attempts' = [(IF ok /\ loops[attempts[a].loop].open
                       THEN Finish(a, "Delivered", s)
                       ELSE Finish(a, "WriteFailed", << >>))
                      EXCEPT ![a].writes = @ + 1]
    /\ UNCHANGED <<cfg, remotes, flaky, mainPc, mainIdx, wg, lst, loops, outConns, nUnits, log>>

\* a dial through a pool: an open connection to the server is used again
DialConnPooled(conns, a) ==
    LET open == {c \in DOMAIN conns :
                    conns[c].server = attempts[a].server /\ conns[c].state = "open"}
    IN  IF open # {} THEN CHOOSE c \in open : TRUE ELSE a

\* net.Dial("tcp", server) succeeded: the connection goroutine a gets, a new
\* one (named after the goroutine that dialled it)
DialConn(conns, a) == a

\* a connection just established to server by goroutine a
NewConn(server, a) == [server |-> server, by |-> a, state |-> "open", writes |-> << >>]

\* net.Dial("tcp", server): on an error log and return
TCPDial(a) ==
    /\ attempts[a].pc = "dial"
    /\ \E ok \in Results(attempts[a].server) :
         IF ok
         THEN LET c == DialConn(outConns, a) IN
              /\ outConns' = IF c \in DOMAIN outConns THEN outConns
                             ELSE (c :> NewConn(attempts[a].server, a)) @@ outConns
              /\ attempts' = [attempts EXCEPT ![a].pc = "write", ![a].conn = c]
         ELSE /\ attempts' = Finish(a, "ConnectFailed", << >>)
              /\ outConns' = outConns
    /\ UNCHANGED <<cfg, remotes, flaky, mainPc, mainIdx, wg, lst, loops, nUnits, log>>

\* targetConn.Write(data) by goroutine a, then the deferred targetConn.Close()
WriteAndClose(conn, a, s, ok) ==
    [conn EXCEPT !.writes = Append(@, [by |-> a, len |-> Len(s), ok |-> ok]),
                 !.state = "closed"]

\* targetConn.Write(data), the log line, and the deferred Close
TCPWrite(a) ==
    /\ attempts[a].pc = "write"
    /\ attempts[a].proto = "tcp"
    /\ \E ok \in WriteResults(attempts[a].server), s \in ViewContents(attempts[a].data) :
         /\ outConns' = [outConns EXCEPT
                           ![attempts[a].conn] = WriteAndClose(@, a, s, ok)]
         /\ attempts' = [(IF ok THEN Finish(a, "Delivered", s)
                          ELSE Finish(a, "WriteFailed", << >>))
                         EXCEPT ![a].writes = @ + 1]
    /\ UNCHANGED <<cfg, remotes, flaky, mainPc, mainIdx, wg, lst, loops, nUnits, log>>

\* ---- the program ----------------------------------------------------------
Next ==
    \/ MainSpawn
    \/ MainWait
    \/ \E i \in 1..Len(cfg) : UnknownProtocol(i)
    \/ \E i \in 1..Len(cfg) : UDPBind(i)
    \/ \E i \in 1..Len(cfg) : UDPReadFrom(i)
    \/ \E i \in 1..Len(cfg) : UDPFanOut(i)
    \/ \E i \in 1..Len(cfg) : TCPBind(i)
    \/ \E i \in 1..Len(cfg) : TCPAccept(i)
    \/ \E c \in 1..Len(loops) : ConnRead(c)
    \/ \E c \in 1..Len(loops) : ConnFanOut(c)
    \/ \E a \in DOMAIN attempts : UDPResolve(a)
    \/ \E a \in DOMAIN attempts : UDPWriteTo(a)
    \/ \E a \in DOMAIN attempts : TCPDial(a)
    \/ \E a \in DOMAIN attempts : TCPWrite(a)

Spec == Init /\ [][Next]_vars

\* ---- vocabulary of the properties ----------------------------------------
Atts == 1..Len(attempts)
Loops == 1..Len(loops)

InFlight(a) == attempts[a].pc # "done"
Failed(a) == attempts[a].outcome \in {"ResolutionFailed", "ConnectFailed", "WriteFailed"}
Delivered(a) == attempts[a].outcome = "Delivered"

\* the attempts spawned for unit k
AttemptsOf(k) == {a \in Atts : attempts[a].unit = k}

\* one step of forwarding goroutine a
AttemptStep(a) == UDPResolve(a) \/ UDPWriteTo(a) \/ TCPDial(a) \/ TCPWrite(a)

\* the units whose read returned on loop l
UnitsRead(l) == {loops[l].read[p] : p \in 1..Len(loops[l].read)}

\* C1: every unit whose read returned has exactly one attempt per entry of the
\* loop's target list (an address listed twice has two), whatever the outcomes
\* of the attempts spawned before; and there is no attempt but these
C1_OneAttemptPerTarget ==
    /\ \A l \in Loops : \A k \in UnitsRead(l) :
         /\ \A j \in 1..Len(loops[l].targets) :
              Cardinality({a \in AttemptsOf(k) :
                              /\ attempts[a].tidx = j
                              /\ attempts[a].server = loops[l].targets[j]
                              /\ attempts[a].loop = l}) = 1
         /\ Cardinality(AttemptsOf(k)) = Len(loops[l].targets)
    /\ \A a \in Atts : attempts[a].unit \in UnitsRead(attempts[a].loop)

\* a second unit was fanned out to a target listed twice after both attempts of
\* the first unit had failed
C1_Witness ==
    \E l \in Loops :
        /\ Len(loops[l].targets) = 2
        /\ loops[l].targets[1] = loops[l].targets[2]
        /\ Len(loops[l].read) = 2
        /\ \A a \in AttemptsOf(loops[l].read[1]) : Failed(a)
        /\ Cardinality(AttemptsOf(loops[l].read[2])) = 2

\* C2: what an attempt wrote to its target is exactly what was read for its unit
C2_PayloadIsUnitRead ==
    \A a \in Atts : Delivered(a) => attempts[a].sent = attempts[a].orig

\* C3: the read loop is never storing into its buffer while a forwarding
\* goroutine that has not written yet holds a slice of that same buffer
C3_NoAttemptViewsReadBuffer ==
    \A a \in Atts :
        InFlight(a) /\ attempts[a].data.base \in Loops
            => loops[attempts[a].data.base].pc # "copy"

\* C4: with two or more targets, an attempt to a reachable target ends in
\* Delivered whatever its siblings did
C4_SiblingsDeliver ==
    \A a \in Atts :
        /\ Len(loops[attempts[a].loop].targets) >= 2
        /\ attempts[a].server \in Reachable
        /\ ~InFlight(a)
        => Delivered(a)

\* one attempt of a unit failed and its sibling delivered afterwards or before
C4_Witness ==
    \E a, b \in Atts :
        /\ a # b
        /\ attempts[a].unit = attempts[b].unit
        /\ Failed(b)
        /\ Delivered(a)

\* C5: a read loop that is back at its read can take the next unit whatever
\* the attempts it spawned are doing
C5_FireAndForget ==
    \A l \in Loops :
        loops[l].pc = "read" /\ nUnits < MaxUnits
            => ENABLED (\E len \in UDPLens \cup TCPLens : BeginRead(l, len))

\* two units' worth of attempts of one loop are all still at their first step
\* and the loop is at its read again
C5_Witness ==
    \E l \in Loops :
        /\ loops[l].pc = "read"
        /\ Len(loops[l].read) = 2
        /\ Len(loops[l].targets) >= 1
        /\ \A k \in UnitsRead(l) : \A a \in AttemptsOf(k) :
              attempts[a].pc \in {"resolve", "dial"}

\* C6: a loop reads one unit at a time, in arrival order, and no forwarding
\* goroutine waits for another: each one in flight can take its next step
C6_ReadsInOrderAttemptsFree ==
    /\ \A l \in Loops :
         /\ \A p, q \in 1..Len(loops[l].read) :
              p < q => loops[l].read[p] < loops[l].read[q]
         /\ loops[l].pc = "copy" => \A k \in UnitsRead(l) : k < loops[l].unit
    /\ \A a \in Atts : InFlight(a) => ENABLED AttemptStep(a)

\* the attempt of a later unit delivered to a target while the attempt of an
\* earlier unit of the same loop to that target is in flight, and of one unit
\* the attempt to the second target finished before the attempt to the first
C6_Witness ==
    \E a, b, c, d \in Atts :
        /\ attempts[a].loop = attempts[b].loop
        /\ attempts[a].server = attempts[b].server
        /\ attempts[a].unit < attempts[b].unit
        /\ InFlight(a) /\ Delivered(b)
        /\ attempts[c].unit = attempts[d].unit
        /\ attempts[c].tidx < attempts[d].tidx
        /\ InFlight(c) /\ ~InFlight(d)

Recognised(i) == cfg[i].Protocol \in {"udp", "tcp"}

BindLogs(i) == {<<"UDP listener started", i>>, <<"Error starting UDP listener", i>>,
                <<"TCP listener started", i>>, <<"Error starting TCP listener", i>>}

C9_WaitsForWorkers ==
    mainPc = "done" => \A i \in 1..Len(cfg) : lst[i].pc = "exited"

\* main returned after all the workers of a configuration of several entries
\* had ended, one of them on a bind failure
C9_Witness ==
    /\ mainPc = "done"
    /\ Len(cfg) >= 2
    /\ \E i \in 1..Len(cfg) : lst[i].exit = "bindfail"

\* C10 as stated: when main has returned, every entry ended with a bind failure
C10_ReturnOnlyAfterAllBindFailures ==
    mainPc = "done" => \A i \in 1..Len(cfg) : lst[i].exit = "bindfail"

\* C10 as amended: when main has returned, every entry with a known protocol
\* ended with a bind failure, and every other entry ended after its diagnostic
C10_ReturnOnlyAfterBindFailureOrUnknown ==
    mainPc = "done" =>
        \A i \in 1..Len(cfg) :
            /\ lst[i].pc = "exited"
            /\ lst[i].exit = IF Recognised(i) THEN "bindfail" ELSE "unknown"

\* main returned: both listeners failed to bind, the third entry was unknown
C10_Witness ==
    /\ mainPc = "done"
    /\ \E i, j \in 1..Len(cfg) :
          /\ i # j
          /\ Recognised(i) /\ lst[i].exit = "bindfail"
          /\ Recognised(j) /\ lst[j].exit = "bindfail"
    /\ \E i \in 1..Len(cfg) : lst[i].exit = "unknown"

\* ---- C11 ------------------------------------------------------------------
UDPEntries == {i \in 1..Len(cfg) : cfg[i].Protocol = "udp"}
TCPEntries == {i \in 1..Len(cfg) : cfg[i].Protocol = "tcp"}

\* the step in which the read loop of entry i reports a failed ReadFrom
UDPReadErrorStep(i) == <<"Error reading UDP packet", i>> \in log' \ log

\* C11: a UDP listener ends only through a bind failure.  One that has ended
\* failed to bind and never had a socket; one that is bound stays in its
\* read loop with its socket open over every step; the step that reports a
\* read error creates no forward attempt and leaves the loop at its next
\* ReadFrom, and after a reported read error the listener still serves and
\* its next read can start.
C11_UDPListenerEndsOnlyOnBindFailure ==
    /\ [](\A i \in UDPEntries :
            /\ lst[i].pc = "exited" => lst[i].exit = "bindfail" /\ lst[i].loop = 0
            /\ <<"Error reading UDP packet", i>> \in log =>
                 /\ lst[i].pc = "serving"
                 /\ (loops[lst[i].loop].pc = "read" /\ nUnits < MaxUnits) =>
                       ENABLED (\E len \in UDPLens : BeginRead(lst[i].loop, len)))
    /\ [][\A i \in UDPEntries :
            /\ lst[i].pc = "serving" =>
                 /\ lst'[i] = lst[i]
                 /\ loops'[lst[i].loop].open
                 /\ loops'[lst[i].loop].pc \in {"read", "copy"}
            /\ UDPReadErrorStep(i) =>
                 /\ attempts' = attempts
                 /\ loops' = loops
                 /\ loops'[lst[i].loop].pc = "read"]_vars

\* a bound UDP listener has reported a read error and has read and fanned out
\* MaxUnits datagrams
C11_Witness ==
    \E i \in UDPEntries :
        /\ <<"Error reading UDP packet", i>> \in log
        /\ lst[i].pc = "serving"
        /\ Len(loops[lst[i].loop].read) = MaxUnits
        /\ Len(attempts) = MaxUnits * Len(cfg[i].TargetServers)

\* ---- C12 ------------------------------------------------------------------
\* the handlers started by TCP entry i
HandlersOf(i) == {c \in Handlers : loops[c].lst = i}

\* the step in which entry i accepts a connection / reports a failed Accept
AcceptStep(i) == remotes'[i] # remotes[i]
AcceptErrorStep(i) == <<"Error accepting TCP connection", i>> \in log' \ log

\* C12: a bound TCP listener never leaves its accept loop.  While it serves
\* and a connection is waiting, the accept is enabled whatever the earlier
\* handlers are doing; no connection has two handlers; over every step a
\* serving listener stays serving; the step that accepts a connection starts
\* exactly one new handler, for that connection, and leaves the other read
\* loops as they are; the step that reports an accept error starts none.
C12_AcceptLoopNeverBlocked ==
    /\ [](\A i \in TCPEntries :
            /\ lst[i].pc = "exited" => lst[i].exit = "bindfail" /\ HandlersOf(i) = {}
            /\ <<"Error accepting TCP connection", i>> \in log => lst[i].pc = "serving"
            /\ (lst[i].pc = "serving" /\ remotes[i] # << >>) =>
                  ENABLED (TCPAccept(i) /\ loops' # loops)
            /\ \A c, d \in HandlersOf(i) : loops[c].remote = loops[d].remote => c = d)
    /\ [][\A i \in TCPEntries :
            /\ lst[i].pc = "serving" => lst'[i] = lst[i]
            /\ AcceptStep(i) =>
                 /\ Len(loops') = Len(loops) + 1
                 /\ SubSeq(loops', 1, Len(loops)) = loops
                 /\ loops'[Len(loops')] = NewLoop("tcp", i, Head(remotes[i]))
                 /\ remotes'[i] = Tail(remotes[i])
                 /\ attempts' = attempts
            /\ AcceptErrorStep(i) => loops' = loops /\ remotes' = remotes
            /\ Cardinality(HandlersOf(i))' # Cardinality(HandlersOf(i)) => AcceptStep(i)]_vars

\* a connection is accepted while the handler of an earlier one is in the
\* middle of a read: two handlers of one listener run, one blocked in Read
C12_Witness ==
    \E i \in TCPEntries : \E c, d \in HandlersOf(i) :
        /\ c < d
        /\ loops[c].pc = "copy"
        /\ loops[d].pc = "read"
        /\ loops[d].read = << >>

\* ---- C13 ------------------------------------------------------------------
\* the step in which handler c returns
HandlerExitStep(c) == loops[c].pc # "exited" /\ loops'[c].pc = "exited"

\* the causes logged for the end of the connection from remote r
ExitCauses(r) ==
    {why \in {"Connection closed by", "Error reading from TCP connection"} : <<why, r>> \in log}

\* C13: a connection handler ends on io.EOF and on any other read error.  A
\* handler that has returned has its inbound connection closed and a cause
\* logged, one that has not returned has it open; the step in which a
\* handler returns is a failed Read (never a fan-out), creates no forward
\* attempt, closes that connection, and changes neither the listeners, nor
\* the other read loops, nor the supervisor, nor any attempt or outbound
\* connection.
C13_HandlerExitClosesOnlyItsConnection ==
    /\ [](\A c \in Handlers :
            /\ loops[c].pc = "exited" <=> ~loops[c].open
            /\ loops[c].pc = "exited" => ExitCauses(loops[c].remote) # {})
    /\ [][\A c \in Handlers :
            HandlerExitStep(c) =>
                /\ loops[c].pc = "read"
                /\ ~loops'[c].open
                /\ loops'[c].read = loops[c].read
                /\ ExitCauses(loops[c].remote)' # {}
                /\ attempts' = attempts
                /\ outConns' = outConns
                /\ lst' = lst
                /\ <<mainPc, wg, remotes>>' = <<mainPc, wg, remotes>>
                /\ Len(loops') = Len(loops)
                /\ \A d \in Loops \ {c} : loops'[d] = loops[d]]_vars

\* a handler has returned on a read error (not io.EOF) after it had read a
\* chunk: its connection is closed, its listener still serves
C13_Witness ==
    \E c \in Handlers :
        /\ loops[c].pc = "exited"
        /\ ExitCauses(loops[c].remote) = {"Error reading from TCP connection"}
        /\ loops[c].read # << >>
        /\ ~loops[c].open
        /\ lst[loops[c].lst].pc = "serving"

\* ---- C14 ------------------------------------------------------------------
\* the step in which the worker of entry i returns on a bind failure
BindFailStep(i) == lst[i].pc = "start" /\ lst'[i].exit = "bindfail"

\* the read loops that belong to entry i
LoopsOf(i) == {l \in Loops : loops[l].lst = i}

\* C14: a bind failure is fatal to one listener only.  The step in which a
\* worker fails to bind logs it, ends that worker alone (one wg.Done) and
\* changes no other worker, no read loop and nothing of main; a worker that
\* has not yet bound can bind whatever has become of its siblings; a worker
\* ends only through its own bind failure or its own unknown protocol; and
\* no step changes the state of two workers, or the state of one worker
\* together with a read loop of another.
C14_BindFailureIsLocal ==
    /\ [](\A i \in 1..Len(cfg) :
            /\ (Recognised(i) /\ lst[i].pc = "start") =>
                  ENABLED ((UDPBind(i) \/ TCPBind(i)) /\ lst'[i].pc = "serving")
            /\ lst[i].exit = "bindfail" =>
                  /\ Recognised(i)
                  /\ lst[i].pc = "exited"
                  /\ log \cap {<<"Error starting UDP listener", i>>,
                               <<"Error starting TCP listener", i>>} # {}
            /\ lst[i].exit \in {"none", "bindfail", "unknown"})
    /\ [][\A i \in 1..Len(cfg) :
            /\ BindFailStep(i) =>
                 /\ lst'[i].pc = "exited"
                 /\ wg' = wg - 1
                 /\ <<loops, attempts, outConns, mainPc, mainIdx, remotes>>' =
                       <<loops, attempts, outConns, mainPc, mainIdx, remotes>>
            /\ lst'[i] # lst[i] =>
                 /\ \A j \in 1..Len(cfg) \ {i} : lst'[j] = lst[j]
                 /\ \A l \in Loops \ LoopsOf(i) : loops'[l] = loops[l]
            /\ (Recognised(i) /\ lst[i].pc = "serving") => lst'[i] = lst[i]]_vars

\* one listener failed to bind; a sibling started after it was bound all the
\* same, and has since accepted a connection and read from it
C14_Witness ==
    \E i, j \in 1..Len(cfg) :
        /\ i < j
        /\ lst[i].exit = "bindfail"
        /\ lst[j].pc = "serving"
        /\ \E c \in LoopsOf(j) : loops[c].read # << >>

\* ---- the program under fair scheduling ------------------------------------
\* the runs in which the targets of a listener are all of one kind, all
\* reachable or all unreachable
FairScenarios ==
    {sc \in Scenarios :
        \A i \in 1..Len(sc.cfg) :
            LET ts == {sc.cfg[i].TargetServers[j] : j \in 1..Len(sc.cfg[i].TargetServers)}
            IN  ts \subseteq Reachable \/ ts \cap Reachable = {}}

FairInit ==
    /\ Init
    /\ \E sc \in FairScenarios : cfg = sc.cfg /\ remotes = sc.remotes /\ flaky = sc.flaky

\* goroutines that can run do run: while a read loop's read has returned,
\* some such loop goes through its loop body, and while a forwarding
\* goroutine is in flight, some such goroutine takes its next step (its
\* resolve, dial or write returns).  Nothing is assumed of the arrival of
\* inbound data, of connections or of their end.
FairSpec ==
    /\ FairInit
    /\ [][Next]_vars
    /\ WF_vars(\E i \in 1..Len(cfg) : UDPFanOut(i))
    /\ WF_vars(\E c \in 1..Len(loops) : ConnFanOut(c))
    /\ WF_vars(\E a \in DOMAIN attempts : AttemptStep(a))

\* ---- C15 ------------------------------------------------------------------
\* no configured target resolves, accepts a connection or takes a write
AllUnreachable ==
    \A i \in 1..Len(cfg) : \A j \in 1..Len(cfg[i].TargetServers) :
        cfg[i].TargetServers[j] \notin Reachable

\* the step in which forwarding goroutine a ends in a failure
AttemptFailStep(a) == ~Failed(a) /\ Failed(a)'

\* unit k has been read and fanned out: one attempt per target exists
FannedOut(k) ==
    \E l \in Loops : /\ k \in UnitsRead(l)
                     /\ Cardinality(AttemptsOf(k)) = Len(loops[l].targets)

\* C15: with every target unreachable, every attempt fails and a failure is
\* only an outcome logged by its goroutine: the step changes no listener, no
\* read loop and nothing of main, and the listener of a failed attempt still
\* serves; and under fair scheduling every unit that has arrived at a read
\* loop is eventually read and fanned out to every target.
C15_UnreachableTargetsNeverStopListeners ==
    /\ [](AllUnreachable =>
            \A a \in Atts :
                /\ ~Delivered(a)
                /\ ~InFlight(a) => Failed(a)
                /\ lst[loops[attempts[a].loop].lst].pc = "serving"
                /\ loops[attempts[a].loop].kind = "udp" => loops[attempts[a].loop].open)
    /\ [][\A a \in Atts :
            (AllUnreachable /\ AttemptFailStep(a)) =>
                <<lst, loops, mainPc, mainIdx, wg, remotes, nUnits, log>>' =
                <<lst, loops, mainPc, mainIdx, wg, remotes, nUnits, log>>]_vars
    /\ \A k \in 1..MaxUnits : (AllUnreachable /\ nUnits >= k) ~> FannedOut(k)

\* every target is unreachable, every attempt of the first unit has failed,
\* and the last unit has been read and fanned out by a listener that serves
C15_Witness ==
    /\ AllUnreachable
    /\ AttemptsOf(1) # {}
    /\ \A a \in AttemptsOf(1) : Failed(a)
    /\ FannedOut(MaxUnits)
    /\ AttemptsOf(MaxUnits) # {}
    /\ \A i \in 1..Len(cfg) : lst[i].pc = "serving"

\* ---- C16 ------------------------------------------------------------------
\* the bytes of inbound unit k, len bytes long, that fit the read buffer
Capped(k, len) == SubSeq(Inbound(k, len), 1, Min(len, BufSize))

\* the lengths are capped: the slice handed to an attempt, and what it
\* writes, is as long as the inbound unit and at most as long as the buffer
PayloadLengthCapped ==
    \A a \in Atts :
        /\ attempts[a].data.len = Min(attempts[a].inlen, BufSize)
        /\ Delivered(a) => Len(attempts[a].sent) = attempts[a].data.len

\* C16: every payload handed to a forward attempt is at most BufSize bytes
\* long, and what the attempt forwards is the inbound unit itself: its first
\* BufSize bytes if it is longer than the buffer, all of it unmodified (no
\* framing, no header) otherwise.
C16_ForwardedIsCappedUnit ==
    \A a \in Atts :
        /\ attempts[a].data.len <= BufSize
        /\ attempts[a].data.len = Min(attempts[a].inlen, BufSize)
        /\ Delivered(a) =>
              attempts[a].sent = Capped(attempts[a].unit, attempts[a].inlen)

\* ---- C17 ------------------------------------------------------------------
Outcomes == {"Delivered", "ResolutionFailed", "ConnectFailed", "WriteFailed"}

\* C17: a forward attempt ends with exactly one outcome, and its steps are
\* ordered.  While it is in flight it has logged none; once it has returned
\* it has logged one, of the four, and never changes again (no retry); it
\* writes only after its resolve or dial succeeded, so an attempt that ended
\* in ResolutionFailed or ConnectFailed has made no write; one that ended in
\* Delivered or WriteFailed has made exactly one; a TCP attempt's write is
\* the only write on the connection it dialled.
C17_OneOutcomeOrderedSteps ==
    /\ [](\A a \in Atts :
            LET t == attempts[a] IN
            /\ InFlight(a) => t.outcome = "none" /\ t.nout = 0
            /\ ~InFlight(a) => t.outcome \in Outcomes /\ t.nout = 1
            /\ t.outcome = "ResolutionFailed" => t.proto = "udp" /\ t.writes = 0
            /\ t.outcome = "ConnectFailed" => t.proto = "tcp" /\ t.writes = 0 /\ t.conn = 0
            /\ t.outcome \in {"Delivered", "WriteFailed"} => t.writes = 1
            /\ t.pc \in {"resolve", "dial", "write"} => t.writes = 0
            /\ t.writes <= 1
            /\ t.conn # 0 => Len(outConns[t.conn].writes) = t.writes)
    /\ [][\A a \in Atts :
            /\ ~InFlight(a) => attempts'[a] = attempts[a]
            /\ attempts'[a].writes # attempts[a].writes => attempts[a].pc = "write"]_vars

\* attempts have ended in three ways: one delivered, one failed before its
\* write (no write made), one failed in its write
C17_Witness ==
    \E a, b, c \in Atts :
        /\ Delivered(a) /\ attempts[a].writes = 1
        /\ attempts[b].outcome \in {"ResolutionFailed", "ConnectFailed"}
        /\ attempts[b].writes = 0
        /\ attempts[c].outcome = "WriteFailed" /\ attempts[c].writes = 1

\* ---- C18 ------------------------------------------------------------------
\* the forwarding goroutines that write to the socket of UDP read loop l
UDPAttemptsOn(l) == {a \in Atts : attempts[a].proto = "udp" /\ attempts[a].loop = l}

\* C18: the socket a UDP listener has bound is never closed while a forward
\* attempt of that listener can still write to it.  In every state with such
\* an attempt in flight the socket is open and startUDPListener has not
\* returned; an open UDP socket stays open over every step; and no UDP write
\* to a reachable target has failed.
C18_SharedSocketOpenWhileAttemptsInFlight ==
    /\ [](\A l \in Loops :
            loops[l].kind = "udp" =>
                \A a \in UDPAttemptsOn(l) :
                    /\ InFlight(a) => loops[l].open /\ lst[loops[l].lst].pc = "serving"
                    /\ (attempts[a].server \in Reachable /\ ~InFlight(a)) => Delivered(a))
    /\ [][\A l \in Loops :
            (loops[l].kind = "udp" /\ loops[l].open) => loops'[l].open]_vars

\* attempts of a UDP listener are about to write while an earlier attempt of
\* the same listener has already written, and the listener has read on
C18_Witness ==
    \E l \in Loops : \E a, b \in UDPAttemptsOn(l) :
        /\ Delivered(a)
        /\ attempts[b].pc = "write"
        /\ attempts[b].unit # attempts[a].unit
        /\ loops[l].open

\* ---- C19 ------------------------------------------------------------------
\* C19: the WaitGroup counts the listener workers only, yet main cuts off no
\* goroutine.  Every read loop (a bound UDP socket, a connection handler) and
\* every forward attempt belongs to a listener that has bound and still
\* serves, hence to a worker wg.Wait still waits for; so once main has
\* returned from wg.Wait there is no read loop, no forward attempt and no
\* outbound connection at all, in flight or ended.
C19_NothingCutOffByReturn ==
    /\ \A l \in Loops : lst[loops[l].lst].pc = "serving" /\ wg > 0
    /\ \A a \in Atts : lst[loops[attempts[a].loop].lst].pc = "serving" /\ wg > 0
    /\ mainPc = "done" =>
          /\ loops = << >>
          /\ attempts = << >>
          /\ DOMAIN outConns = {}
          /\ nUnits = 0

\* main has returned: a UDP and a TCP listener were started, both failed to
\* bind, and no handler or attempt was ever created
C19_Witness ==
    /\ mainPc = "done"
    /\ \E i \in UDPEntries : lst[i].exit = "bindfail"
    /\ \E j \in TCPEntries : lst[j].exit = "bindfail"
    /\ loops = << >>
    /\ attempts = << >>

\* ---- C20 ------------------------------------------------------------------
\* every attempt spawned for unit k has logged its outcome and returned
AllEnded(k) == \A a \in AttemptsOf(k) : ~InFlight(a) /\ attempts[a].outcome \in Outcomes

\* the last unit handler c read before it returned
LastUnit(c) == loops[c].read[Len(loops[c].read)]

\* C20: the return of a connection handler cancels none of the forward
\* attempts it has spawned.  The step in which a handler returns leaves every
\* attempt as it is; an attempt in flight can take its next step whether or
\* not its handler has returned; and under fair scheduling, every unit that
\* was fanned out has all its attempts reach an outcome, the last unit of a
\* handler that has returned included.
C20_HandlerExitCancelsNoAttempt ==
    /\ [](\A a \in Atts :
            (InFlight(a) /\ loops[attempts[a].loop].pc = "exited") =>
                ENABLED AttemptStep(a))
    /\ [][\A c \in Handlers : HandlerExitStep(c) => attempts' = attempts]_vars
    /\ \A k \in 1..MaxUnits : FannedOut(k) ~> (FannedOut(k) /\ AllEnded(k))

\* a handler has returned while an attempt for the last chunk it read is
\* still in flight, not yet dialled
C20_Witness ==
    \E c \in Handlers : \E a \in Atts :
        /\ loops[c].pc = "exited"
        /\ loops[c].read # << >>
        /\ attempts[a].loop = c
        /\ attempts[a].unit = LastUnit(c)
        /\ attempts[a].pc = "dial"

====
